---------------------------- MODULE Spec2Model ----------------------------
(***************************************************************************)
(* A model of skpy/util.py (class SkypeUtils): the cacheResult memoizer,   *)
(* the exhaust generator, the initAttrs-generated initializer and the      *)
(* convertIds accessors.  Each mechanism has its own specification; the    *)
(* variables of the other mechanisms stay at their initial values.         *)
(***************************************************************************)
EXTENDS Integers, Sequences, FiniteSets, TLC

VARIABLES
    cache,       \* cacheResult: the dict `cache` (key -> stored result)
    log,         \* cacheResult: one record per call of wrapper, in the order the calls began
    dictOrder,   \* cacheResult: the interpreter's iteration order of a **kwargs dict
    script,      \* exhaust: the pages fn returns, call after call
    transform,   \* exhaust: the transform argument ("none" when not supplied)
    gen,         \* exhaust: the generator's frame (position, running iterator, fetches)
    consumer,    \* exhaust: what the consumer has requested and received
    schema,      \* initAttrs: cls.attrs and cls.defaults
    obj,         \* initAttrs: the last construction (call, effects in order, outcome)
    session,     \* convertIds: self.skype (the contacts and chats directories)
    entity,      \* convertIds: the id fields of the decorated instance
    reads        \* convertIds: one record per accessor read, in read order

vars == <<cache, log, dictOrder, script, transform, gen, consumer, schema, obj, session, entity, reads>>

(***************************************************************************)
(* Python values.  A value is a sequence of strings: its type followed by  *)
(* its content; a list or tuple holds one element.                         *)
(***************************************************************************)
IntV(d) == <<"int", d>>
ListV(v) == <<"list">> \o v
TupleV(v) == <<"tuple">> \o v
StrV(chars) == <<"str">> \o chars

TypeOf(v) == v[1]

\* isinstance(x, Hashable): decided by the type alone.
IsHashable(x) == TypeOf(x) \in {"int", "str", "tuple"}

\* hash(x) raises TypeError: a list, or a tuple holding an unhashable element.
RECURSIVE HashRaises(_)
HashRaises(x) ==
    CASE TypeOf(x) = "list" -> TRUE
      [] TypeOf(x) = "tuple" -> HashRaises(Tail(x))
      [] OTHER -> FALSE

\* repr(x), as a sequence of characters.
RECURSIVE Repr(_)
Repr(x) ==
    CASE TypeOf(x) = "int" -> Tail(x)
      [] TypeOf(x) = "list" -> <<"[">> \o Repr(Tail(x)) \o <<"]">>
      [] TypeOf(x) = "tuple" -> <<"(">> \o Repr(Tail(x)) \o <<",", ")">>
      [] OTHER -> <<"'">> \o Tail(x) \o <<"'">>

\* The orders in which an interpreter iterates a **kwargs dict: the order the
\* keywords were written in (CPython 3.6 and later), or the order of the names'
\* hashes, which is one order of the names for the life of the process
\* ("ab": a before b, as CPython 2.7 gives; "ba": b before a).
DictOrders == {"written", "ab", "ba"}

\* The items of the dict kwargs in the interpreter's iteration order; kwargs
\* is given as the keywords of the call in the order written.
DictItems(kwargs) ==
    IF dictOrder = "written" THEN kwargs
    ELSE LET names == {kwargs[i].name : i \in DOMAIN kwargs}
             order == IF dictOrder = "ab" THEN <<"a", "b">> ELSE <<"b", "a">>
             present == SelectSeq(order, LAMBDA n : n \in names)
         IN  [i \in 1..Len(present) |->
                 kwargs[CHOOSE j \in DOMAIN kwargs : kwargs[j].name = present[i]]]

\* The items of str(d) for the dict's items in iteration order.
RECURSIVE StrItems(_)
StrItems(items) ==
    IF items = <<>> THEN <<>>
    ELSE <<"'", Head(items).name, "'", ":", " ">> \o Repr(Head(items).value)
         \o (IF Len(items) > 1 THEN <<",", " ">> ELSE <<>>)
         \o StrItems(Tail(items))

\* str(kwargs)
StrDict(kwargs) == <<"{">> \o StrItems(DictItems(kwargs)) \o <<"}">>

(***************************************************************************)
(* cacheResult                                                             *)
(***************************************************************************)
MaxCalls == 2

PosValues == {IntV("1"), ListV(IntV("1")), TupleV(ListV(IntV("1")))}
KwNames == {"a", "b"}
KwValues == {IntV("1"), ListV(IntV("1"))}
Results == {"r1", "r2"}

ArgTuples == {<<v>> : v \in PosValues}

KwItem(n, v) == [name |-> n, value |-> v]

\* The keyword arguments of a call, in the order written: none, one keyword
\* with any of the values, or two keywords (no name twice) in either order.
KwargSeqs ==
    {<<>>}
    \cup {<<KwItem(n, v)>> : n \in KwNames, v \in KwValues}
    \cup {<<KwItem(p[1], IntV("1")), KwItem(p[2], IntV("1"))>> :
             p \in {q \in KwNames \X KwNames : q[1] # q[2]}}

\* The name-to-value mapping of a call's keywords.
KwMapping(kwargs) == {<<kwargs[i].name, kwargs[i].value>> : i \in DOMAIN kwargs}

\* key = args + (str(kwargs),)
MakeKey(args, kwargs) == args \o <<StrV(StrDict(kwargs))>>

AllHashable(key) == \A i \in DOMAIN key : IsHashable(key[i])

KeyHashRaises(key) == \E i \in DOMAIN key : HashRaises(key[i])

\* A wrapper that never finds the key: it recomputes on every call.
NeverInCache(key) == FALSE

\* `key not in cache`, negated
InCache(key) == key \in DOMAIN cache

CachePut(key, value) ==
    [k \in (DOMAIN cache) \cup {key} |-> IF k = key THEN value ELSE cache[k]]

\* The calls that have begun and not ended.
Pending == {i \in DOMAIN log : log[i].phase # "done"}

\* A call wrapper(*args, **kwargs) begins: it runs to its end (a TypeError
\* of the lookup, or a hit) or to its invocation of fn (a bypass, or a miss).
\* Nothing keeps other calls from running while it is inside fn.
wrapper(args, kwargs) ==
    LET key == MakeKey(args, kwargs)
        call == [args |-> args, kwargs |-> kwargs, key |-> key, stored |-> FALSE,
                 overlapped |-> \E i \in Pending : log[i].key = key]
    IN  /\ cache' = cache
        /\ IF ~AllHashable(key)
           THEN log' = Append(log, call @@ [phase |-> "fn", bypass |-> TRUE,
                                            outcome |-> "pending", result |-> "none",
                                            invoked |-> TRUE])
           ELSE IF KeyHashRaises(key)
           THEN log' = Append(log, call @@ [phase |-> "done", bypass |-> FALSE,
                                            outcome |-> "TypeError", result |-> "none",
                                            invoked |-> FALSE])
           ELSE IF InCache(key)
           THEN log' = Append(log, call @@ [phase |-> "done", bypass |-> FALSE,
                                            outcome |-> "return", result |-> cache[key],
                                            invoked |-> FALSE])
           ELSE log' = Append(log, call @@ [phase |-> "fn", bypass |-> FALSE,
                                            outcome |-> "pending", result |-> "none",
                                            invoked |-> TRUE])

CallWrapper ==
    /\ Len(log) < MaxCalls
    /\ \E args \in ArgTuples, kwargs \in KwargSeqs : wrapper(args, kwargs)
    /\ UNCHANGED <<dictOrder, script, transform, gen, consumer, schema, obj, session, entity, reads>>

\* fn returns r to call i: a bypassing call returns it (`return fn(...)`), a
\* call that missed stores it (`cache[key] = fn(...)`).
FnReturns ==
    /\ \E i \in Pending, r \in Results :
        /\ log[i].phase = "fn"
        /\ IF log[i].bypass
           THEN /\ cache' = cache
                /\ log' = [log EXCEPT ![i].phase = "done", ![i].outcome = "return",
                                      ![i].result = r]
           ELSE /\ cache' = CachePut(log[i].key, r)
                /\ log' = [log EXCEPT ![i].phase = "stored", ![i].stored = TRUE]
    /\ UNCHANGED <<dictOrder, script, transform, gen, consumer, schema, obj, session, entity, reads>>

\* fn raises in call i: the exception leaves wrapper, nothing is stored.
FnRaises ==
    /\ \E i \in Pending :
        /\ log[i].phase = "fn"
        /\ log' = [log EXCEPT ![i].phase = "done", ![i].outcome = "raised"]
    /\ UNCHANGED <<cache, dictOrder, script, transform, gen, consumer, schema, obj, session, entity, reads>>

\* `return cache[key]` of a call that has stored.
ReturnCached ==
    /\ \E i \in Pending :
        /\ log[i].phase = "stored"
        /\ log' = [log EXCEPT ![i].phase = "done", ![i].outcome = "return",
                              ![i].result = cache[log[i].key]]
    /\ UNCHANGED <<cache, dictOrder, script, transform, gen, consumer, schema, obj, session, entity, reads>>

(***************************************************************************)
(* exhaust                                                                 *)
(***************************************************************************)
MaxPages == 3

Pages == {<<>>, <<1>>, <<1, 2>>, <<2, 1>>}
Transforms == {"none", "reversed", "tail"}

\* The fetch functions considered: the i-th call returns script[i], and
\* every call past the script returns an empty page.
Scripts == [1..MaxPages -> Pages]

\* fn(*args, **kwargs), on its i-th invocation.
Fn(i) == IF i \in DOMAIN script THEN script[i] ELSE <<>>

\* `if iterRes:`
Truthy(iterRes) == iterRes # <<>>

Reversed(page) == [i \in 1..Len(page) |-> page[Len(page) + 1 - i]]

\* `transform(iterRes) if transform else iterRes`
IterOf(iterRes) ==
    CASE transform = "none" -> iterRes
      [] transform = "reversed" -> Reversed(iterRes)
      [] OTHER -> Tail(iterRes)

\* An exhaust that fetches the first page when it is called.
exhaustEager == [pc |-> "created", cur |-> IterOf(Fn(1)), fetches |-> 1, item |-> 0]

\* The call exhaust(fn, transform): a generator object whose body has not
\* started to run.
exhaust == [pc |-> "created", cur |-> <<>>, fetches |-> 0, item |-> 0]

\* A body whose loop ends after its first page.
ResumeOnePage(fetches, cur) ==
    IF cur # <<>>
    THEN [pc |-> "yield", cur |-> Tail(cur), fetches |-> fetches, item |-> Head(cur)]
    ELSE IF fetches = 0 /\ Truthy(Fn(1)) /\ IterOf(Fn(1)) # <<>>
    THEN [pc |-> "yield", cur |-> Tail(IterOf(Fn(1))), fetches |-> 1,
          item |-> Head(IterOf(Fn(1)))]
    ELSE [pc |-> "done", cur |-> <<>>, fetches |-> IF fetches = 0 THEN 1 ELSE fetches,
          item |-> 0]

\* The generator's body from the point it is resumed at (the start, or the
\* yield) to its next yield or its end: cur is what is left of the running
\* `for`, fetches the number of invocations of fn so far.
RECURSIVE Resume(_, _)
Resume(fetches, cur) ==
    IF cur # <<>>
    THEN [pc |-> "yield", cur |-> Tail(cur), fetches |-> fetches, item |-> Head(cur)]
    ELSE LET iterRes == Fn(fetches + 1)
         IN  IF Truthy(iterRes)
             THEN Resume(fetches + 1, IterOf(iterRes))
             ELSE [pc |-> "done", cur |-> <<>>, fetches |-> fetches + 1, item |-> 0]

\* The consumer requests one item: next(generator).
NextItem ==
    /\ gen.pc \in {"created", "yield"}
    /\ gen' = Resume(gen.fetches, gen.cur)
    /\ consumer' = [requests |-> consumer.requests + 1,
                    received |-> IF gen'.pc = "yield"
                                 THEN Append(consumer.received, gen'.item)
                                 ELSE consumer.received,
                    stopped |-> FALSE]
    /\ UNCHANGED <<script, transform, cache, log, dictOrder, schema, obj, session, entity, reads>>

\* The consumer stops requesting items (the generator is closed or dropped):
\* GeneratorExit is raised at the yield, which the body does not catch.
StopConsuming ==
    /\ gen.pc \in {"created", "yield"}
    /\ gen' = [gen EXCEPT !.pc = "closed", !.cur = <<>>]
    /\ consumer' = [consumer EXCEPT !.stopped = TRUE]
    /\ UNCHANGED <<script, transform, cache, log, dictOrder, schema, obj, session, entity, reads>>

(***************************************************************************)
(* initAttrs                                                               *)
(***************************************************************************)
MaxPos == 3

AttrValues == {"v1", "v2"}
InitKwNames == {"a", "b", "x", "y"}

\* The declared schemas considered: cls.attrs (no name twice) and
\* cls.defaults (a dict over some of the names).
Schemas ==
    {s \in [attrs : {<<"a">>, <<"a", "b">>, <<"b", "a">>},
            defaults : {<<>>, [k \in {"a"} |-> "d1"], [k \in {"b"} |-> "d1"],
                        [k \in {"a", "b"} |-> "d2"]}] :
        DOMAIN s.defaults \subseteq {s.attrs[i] : i \in DOMAIN s.attrs}}

PosArgs == UNION {[1..n -> AttrValues] : n \in 0..MaxPos}

\* The dicts a call can pass as **kwargs.
InitKwargs == UNION {[ks -> AttrValues] : ks \in SUBSET InitKwNames}

SeqToSet(s) == {s[i] : i \in DOMAIN s}

\* dict.get(k, default)
Get(d, k, default) == IF k \in DOMAIN d THEN d[k] ELSE default

\* `for i in range(len(args)): kwargs[cls.attrs[i]] = args[i]`, for a call
\* with no more positional arguments than cls.attrs has names.
MergeArgs(attrs, args, kwargs) ==
    [k \in (DOMAIN kwargs) \cup {attrs[i] : i \in DOMAIN args} |->
        IF \E i \in DOMAIN args : attrs[i] = k
        THEN args[CHOOSE i \in DOMAIN args : attrs[i] = k]
        ELSE kwargs[k]]

\* An initializer that accepts every keyword.
UnknownIgnored(kwargs, attrs) == {}

\* `unknown = set(kwargs) - set(cls.attrs)`
Unknown(kwargs, attrs) == (DOMAIN kwargs) \ SeqToSet(attrs)

\* sorted(unknown), for the names considered.
Sorted(names) == SelectSeq(<<"a", "b", "x", "y">>, LAMBDA n : n \in names)

\* The TypeError's message, in its parts.
UnknownMessage(unknown) ==
    <<"__init__() got",
      IF Cardinality(unknown) = 1 THEN "an unexpected keyword argument"
                                  ELSE "unexpected keyword arguments">>
    \o Sorted(unknown)

\* `super(cls, self).__init__(skype, raw)`: the supertype's initializer runs.
SuperInit(skype, raw) == <<"super.__init__", skype, raw>>

\* `setattr(self, k, ...)` for each k of cls.attrs, in order.
SetAttrs(attrs, kwargs, defaults) ==
    [i \in DOMAIN attrs |->
        <<"setattr", attrs[i], Get(kwargs, attrs[i], Get(defaults, attrs[i], "None"))>>]

\* An initializer that calls the supertype's initializer last.
BodySuperLast(first, rest) == rest \o <<first>>

\* The order of the initializer's statements: the supertype's initializer,
\* then whatever follows it.
Body(first, rest) == <<first>> \o rest

\* The instance's schema attributes after the effects of `trace`.
Fields(trace) ==
    LET sets == {i \in DOMAIN trace : trace[i][1] = "setattr"}
    IN  [k \in {trace[i][2] : i \in sets} |->
            trace[CHOOSE i \in sets : trace[i][2] = k /\ \A j \in sets : trace[j][2] = k => j <= i][3]]

\* The generated __init__(self, skype, raw, *args, **kwargs): the effects on
\* the instance in the order they happen, and how the call ends.
init(skype, raw, args, kwargs) ==
    LET attrs == schema.attrs
        call == [args |-> args, kwargs |-> kwargs]
    IN  IF Len(args) > Len(attrs)
        THEN call @@ [trace |-> Body(SuperInit(skype, raw), <<>>),
                      outcome |-> "IndexError", message |-> <<>>]
        ELSE LET merged == MergeArgs(attrs, args, kwargs)
                 unknown == Unknown(merged, attrs)
             IN  IF unknown # {}
                 THEN call @@ [trace |-> Body(SuperInit(skype, raw), <<>>),
                               outcome |-> "TypeError",
                               message |-> UnknownMessage(unknown)]
                 ELSE call @@ [trace |-> Body(SuperInit(skype, raw),
                                              SetAttrs(attrs, merged, schema.defaults)),
                               outcome |-> "ok", message |-> <<>>]

NoCall == [args |-> <<>>, kwargs |-> <<>>, trace |-> <<>>, outcome |-> "none", message |-> <<>>]

\* An instance of the decorated class is constructed.
Construct ==
    /\ obj = NoCall
    /\ \E args \in PosArgs, kwargs \in InitKwargs :
           obj' = init("skype", "raw", args, kwargs)
    /\ UNCHANGED <<schema, cache, log, dictOrder, script, transform, gen, consumer, session, entity, reads>>

(***************************************************************************)
(* convertIds                                                              *)
(***************************************************************************)
MaxReads == 2

Ids == {"alice", "bob"}
Entries == {"E1", "E2"}

\* A directory: identifier -> entry, "missing" where it holds none.
Directories == [Ids -> Entries \cup {"missing"}]

\* `self.skype.contacts[id]` and `self.skype.chats[id]`: the entry, or the
\* directory's lookup miss.
Lookup(dir, id) ==
    IF dir[id] = "missing"
    THEN [outcome |-> "KeyError", value |-> "none"]
    ELSE [outcome |-> "ok", value |-> dir[id]]

\* An accessor that remembers the first entry it resolved.
userObjRemembered(field) ==
    LET earlier == {i \in DOMAIN reads : reads[i].prop = "user" /\ reads[i].outcome = "ok"}
    IN  IF earlier # {}
        THEN [outcome |-> "ok", value |-> reads[CHOOSE i \in earlier : TRUE].value]
        ELSE Lookup(session.contacts, entity[field])

\* userObj(self, field)
userObj(field) == Lookup(session.contacts, entity[field])

\* chatObj(self, field)
chatObj(field) == Lookup(session.chats, entity[field])

\* The properties wrapper(cls) attaches for @convertIds("user", "chat"):
\* property name -> the function and the id field bound to it.
Attached ==
    [prop \in {"user", "chat"} |->
        IF prop = "user" THEN [fn |-> "userObj", idField |-> "userId"]
                         ELSE [fn |-> "chatObj", idField |-> "chatId"]]

\* Reading the property: the bound function is called with the bound field.
GetProperty(prop) ==
    IF Attached[prop].fn = "userObj" THEN userObj(Attached[prop].idField)
                                     ELSE chatObj(Attached[prop].idField)

\* A reader reads one of the attached properties of the instance.
ReadProperty ==
    /\ Len(reads) < MaxReads
    /\ \E prop \in DOMAIN Attached :
           reads' = Append(reads, [prop |-> prop] @@ GetProperty(prop))
    /\ UNCHANGED <<session, entity, cache, log, dictOrder, script, transform, gen, consumer, schema, obj>>

\* Calling code reassigns an id field of the instance.
SetIdField ==
    /\ \E f \in DOMAIN entity, id \in Ids : entity' = [entity EXCEPT ![f] = id]
    /\ UNCHANGED <<session, reads, cache, log, dictOrder, script, transform, gen, consumer, schema, obj>>

\* The session's owner adds, replaces or removes a directory entry.
UpdateDirectory ==
    /\ \E d \in {"contacts", "chats"}, id \in Ids, e \in Entries \cup {"missing"} :
           session' = [session EXCEPT ![d][id] = e]
    /\ UNCHANGED <<entity, reads, cache, log, dictOrder, script, transform, gen, consumer, schema, obj>>

(***************************************************************************)
(* Specifications                                                          *)
(***************************************************************************)
IdleCache == cache = <<>> /\ log = <<>> /\ dictOrder = "written"

IdleExhaust ==
    /\ script = [i \in 1..MaxPages |-> <<>>]
    /\ transform = "none"
    /\ gen = exhaust
    /\ consumer = [requests |-> 0, received |-> <<>>, stopped |-> FALSE]

IdleInit == schema = [attrs |-> <<"a">>, defaults |-> <<>>] /\ obj = NoCall

IdleIds ==
    /\ session = [contacts |-> [i \in Ids |-> "missing"], chats |-> [i \in Ids |-> "missing"]]
    /\ entity = [userId |-> "alice", chatId |-> "alice"]
    /\ reads = <<>>

\* cacheResult(fn) has just wrapped fn, under some interpreter: the cache is
\* empty.
InitCache ==
    /\ cache = <<>>
    /\ log = <<>>
    /\ dictOrder \in DictOrders
    /\ IdleExhaust /\ IdleInit /\ IdleIds

NextCache == CallWrapper \/ FnReturns \/ FnRaises \/ ReturnCached

SpecCache == InitCache /\ [][NextCache]_vars

\* exhaust(fn, transform) has just been called, for some fetch function and
\* transform.
InitExhaust ==
    /\ script \in Scripts
    /\ transform \in Transforms
    /\ gen = exhaust
    /\ consumer = [requests |-> 0, received |-> <<>>, stopped |-> FALSE]
    /\ IdleCache /\ IdleInit /\ IdleIds

NextExhaust == NextItem \/ StopConsuming

SpecExhaust == InitExhaust /\ [][NextExhaust]_vars

\* initAttrs(cls) has decorated a class with some schema.
InitInit ==
    /\ schema \in Schemas
    /\ obj = NoCall
    /\ IdleCache /\ IdleExhaust /\ IdleIds

NextInit == Construct

SpecInit == InitInit /\ [][NextInit]_vars

\* An instance of a class decorated with convertIds("user", "chat"), in a
\* session with some directories.
InitIds ==
    /\ session \in [contacts : Directories, chats : Directories]
    /\ entity \in [userId : Ids, chatId : Ids]
    /\ reads = <<>>
    /\ IdleCache /\ IdleExhaust /\ IdleInit

NextIds == ReadProperty \/ SetIdField \/ UpdateDirectory

SpecIds == InitIds /\ [][NextIds]_vars

(***************************************************************************)
(* Claims about cacheResult (checked under SpecCache)                      *)
(***************************************************************************)
\* Every argument of the call, positional or keyword, can be hashed.
ArgsAllHashable(c) ==
    /\ \A i \in DOMAIN c.args : ~HashRaises(c.args[i])
    /\ \A i \in DOMAIN c.kwargs : ~HashRaises(c.kwargs[i].value)

\* The calls made so far with the key k.
CallsWith(k) == {j \in DOMAIN log : log[j].key = k}

FirstCallWith(k) == CHOOSE j \in CallsWith(k) : \A m \in CallsWith(k) : j <= m

\* C1 as stated: for calls of hashable arguments, fn is invoked for a key by
\* the first call with the key and by no other; the entry is written once;
\* and every later call with the key returns the value the first call stored.
C1_OncePerKey ==
    \A i \in DOMAIN log :
        ArgsAllHashable(log[i]) =>
            LET k == log[i].key
                first == FirstCallWith(k)
            IN  /\ {j \in CallsWith(k) : log[j].invoked} = {first}
                /\ Cardinality({j \in CallsWith(k) : log[j].stored}) <= 1
                /\ (i > first /\ log[i].phase = "done") =>
                       /\ log[i].outcome = "return"
                       /\ log[first].stored
                       /\ log[i].result = cache[k]

\* No call with the key k began while another call with k was running.
OneAtATime(k) == \A j \in CallsWith(k) : ~log[j].overlapped

\* The calls with the key k whose invocation of fn has returned.
Returned(k) == {j \in CallsWith(k) : log[j].stored}

\* C1 as amended: for calls of hashable arguments, made one at a time for a
\* key, fn is invoked by the calls with the key up to and including the first
\* whose invocation returns; the calls before it end with fn's exception and
\* store nothing; that call writes the entry, the only write for the key; the
\* entry then stays in the cache with the value it stored, and every later
\* call with the key returns that value without invoking fn.
C1_OncePerKeyOneAtATime ==
    \A i \in DOMAIN log :
        (ArgsAllHashable(log[i]) /\ OneAtATime(log[i].key)) =>
            LET k == log[i].key
            IN  /\ Cardinality(Returned(k)) <= 1
                /\ log[i].invoked <=> \A w \in Returned(k) : i <= w
                /\ (k \in DOMAIN cache) <=> Returned(k) # {}
                /\ \A w \in Returned(k) :
                       /\ i < w => log[i].outcome = "raised"
                       /\ (i >= w /\ log[i].phase = "done") =>
                              /\ log[i].outcome = "return"
                              /\ log[i].result = cache[k]
                              /\ log[w].phase = "done" /\ log[w].result = cache[k]

\* C1's case: a second call with the key of an earlier call, with a keyword
\* and a positional argument, begun after the first had stored fn's value and
\* returned, answered from the cache.
C1_Witness ==
    /\ Len(log) = 2
    /\ ArgsAllHashable(log[1])
    /\ Len(log[1].kwargs) = 2
    /\ log[2].key = log[1].key
    /\ ~log[2].overlapped
    /\ log[1].stored /\ log[1].invoked /\ ~log[2].invoked
    /\ log[2].phase = "done" /\ log[2].result = log[1].result

\* Some argument of the call, positional or keyword, has a value that cannot
\* be hashed.
HasUnhashableArg(c) == ~ArgsAllHashable(c)

\* C2: a call with any unhashable argument, positional or keyword, invokes
\* fn, raises no error of its own and writes nothing to the cache.
C2_AnyUnhashableBypasses ==
    \A i \in DOMAIN log :
        (HasUnhashableArg(log[i]) /\ log[i].phase = "done") =>
            /\ log[i].outcome # "TypeError"
            /\ log[i].invoked
            /\ ~log[i].stored

\* C10: two calls with equal positional arguments and the same keyword
\* mapping have the same cache key, whatever the order of their keywords, and
\* two calls that differ in either have different keys.
C10_KeyStableUnderKeywordOrder ==
    \A i, j \in DOMAIN log :
        (log[i].key = log[j].key)
            <=> (/\ log[i].args = log[j].args
                 /\ KwMapping(log[i].kwargs) = KwMapping(log[j].kwargs))

(***************************************************************************)
(* Claims about exhaust (checked under SpecExhaust)                        *)
(***************************************************************************)
\* The index of the first empty page fn returns.
FirstFalsy ==
    CHOOSE i \in 1..(Len(script) + 1) :
        /\ i = Len(script) + 1 \/ script[i] = <<>>
        /\ \A j \in 1..(i - 1) : script[j] # <<>>

\* What the consumer is to receive from one page.
ItemsOf(page) ==
    IF transform = "none" THEN page
    ELSE IF transform = "reversed" THEN [i \in 1..Len(page) |-> page[Len(page) + 1 - i]]
    ELSE SubSeq(page, 2, Len(page))

\* The items of the first n pages, in order.
RECURSIVE ItemsUpTo(_)
ItemsUpTo(n) == IF n = 0 THEN <<>> ELSE ItemsUpTo(n - 1) \o ItemsOf(script[n])

IsPrefix(s, t) == Len(s) <= Len(t) /\ s = SubSeq(t, 1, Len(s))

\* C3: what has been yielded is always a prefix of the concatenation of the
\* items of the pages before the first empty one, and once the generator has
\* ended it is exactly that concatenation, fn having been invoked once per
\* such page and once more for the empty page, and no further.
C3_YieldsConcatenation ==
    /\ IsPrefix(consumer.received, ItemsUpTo(FirstFalsy - 1))
    /\ gen.fetches <= FirstFalsy
    /\ gen.pc = "done" =>
           /\ consumer.received = ItemsUpTo(FirstFalsy - 1)
           /\ gen.fetches = FirstFalsy

\* C3's case: a drained generator with a transform, two non-empty pages, an
\* empty page and a page after it that was never fetched.
C3_Witness ==
    /\ gen.pc = "done"
    /\ transform = "reversed"
    /\ script[1] = <<1, 2>> /\ script[2] = <<2, 1>> /\ script[3] = <<>>
    /\ consumer.received = <<2, 1, 1, 2>>
    /\ gen.fetches = 3

\* C4: fn is not invoked before the first request; when fn has been invoked
\* n+1 times the consumer has received every item of the first n pages and
\* has requested one more; fn is invoked only in a step in which the consumer
\* requests an item and the running page has no item left; and once the
\* consumer has stopped fn is never invoked again.
C4_NoFetchAhead ==
    /\ [](/\ consumer.requests = 0 => gen.fetches = 0
          /\ \A n \in 1..(gen.fetches - 1) :
                 /\ IsPrefix(ItemsUpTo(n), consumer.received)
                 /\ consumer.requests > Len(ItemsUpTo(n)))
    /\ [][/\ gen'.fetches # gen.fetches =>
                 /\ consumer'.requests = consumer.requests + 1
                 /\ gen.cur = <<>>
          /\ consumer.stopped => gen'.fetches = gen.fetches /\ consumer'.stopped]_vars

\* C4's case: the consumer stopped after the first item of a two-item page,
\* with a non-empty page still to come: fn was invoked once.
C4_Witness ==
    /\ consumer.stopped
    /\ transform = "none"
    /\ script[1] = <<1, 2>> /\ script[2] = <<1>>
    /\ consumer.received = <<1>>
    /\ consumer.requests = 1
    /\ gen.fetches = 1

(***************************************************************************)
(* Claims about the initAttrs initializer (checked under SpecInit)         *)
(***************************************************************************)
Constructed == obj.outcome # "none"

AttrSet == SeqToSet(schema.attrs)

\* The call is within the schema: no more positional arguments than
\* attributes, and every keyword names an attribute.
WithinSchema == Len(obj.args) <= Len(schema.attrs) /\ DOMAIN obj.kwargs \subseteq AttrSet

\* The attributes the call binds by position.
BoundByPosition == {schema.attrs[i] : i \in DOMAIN obj.args}

\* Some attribute is bound both by position and by keyword.
BoundTwice == WithinSchema /\ BoundByPosition \cap DOMAIN obj.kwargs # {}

DeclaredDefault(k) == IF k \in DOMAIN schema.defaults THEN schema.defaults[k] ELSE "None"

\* C5: a call within the schema succeeds and sets every attribute: the i-th
\* positional argument on the i-th attribute, a keyword argument on the
\* attribute of its name, the declared default (or None) on the others.
C5_AllAttributesBound ==
    (Constructed /\ WithinSchema) =>
        /\ obj.outcome = "ok"
        /\ DOMAIN Fields(obj.trace) = AttrSet
        /\ \A i \in DOMAIN obj.args : Fields(obj.trace)[schema.attrs[i]] = obj.args[i]
        /\ \A k \in DOMAIN obj.kwargs : Fields(obj.trace)[k] = obj.kwargs[k]
        /\ \A k \in AttrSet \ (BoundByPosition \cup DOMAIN obj.kwargs) :
               Fields(obj.trace)[k] = DeclaredDefault(k)

\* C7: a call that binds an attribute both by position and by keyword fails.
C7_DuplicateIsError == (Constructed /\ BoundTwice) => obj.outcome # "ok"

\* The keywords of the call that name no attribute.
UnknownKeywords == DOMAIN obj.kwargs \ AttrSet

\* C6 as stated: a call with a keyword that names no attribute raises the
\* unknown-argument error, and nothing has taken effect on the instance by
\* then.
C6_NothingBeforeError ==
    (Constructed /\ UnknownKeywords # {}) =>
        /\ obj.outcome = "TypeError"
        /\ obj.trace = <<>>

\* C6 as amended: a call with a keyword that names no attribute, and no more
\* positional arguments than attributes, raises the unknown-argument error,
\* which names exactly the unknown keywords; no attribute has been set by
\* then, and the one step that has taken effect on the instance is the
\* supertype's initializer, invoked with (skype, raw).
C6_OnlySuperBeforeError ==
    (Constructed /\ UnknownKeywords # {} /\ Len(obj.args) <= Len(schema.attrs)) =>
        /\ obj.outcome = "TypeError"
        /\ SubSeq(obj.message, 3, Len(obj.message)) = Sorted(UnknownKeywords)
        /\ Fields(obj.trace) = <<>>
        /\ obj.trace = <<SuperInit("skype", "raw")>>

\* C6's case: a call with positional arguments, a valid keyword and two
\* unknown keywords has raised the error.
C6_Witness ==
    /\ obj.outcome = "TypeError"
    /\ schema.attrs = <<"a", "b">>
    /\ Len(obj.args) = 1
    /\ DOMAIN obj.kwargs = {"b", "x", "y"}
    /\ obj.message = <<"__init__() got", "unexpected keyword arguments", "x", "y">>

\* The positions in the trace at which the supertype's initializer runs, and
\* at which an attribute is set.
SuperSteps == {i \in DOMAIN obj.trace : obj.trace[i][1] = "super.__init__"}
SetSteps == {i \in DOMAIN obj.trace : obj.trace[i][1] = "setattr"}

\* C9 as stated: in a successful construction every attribute is set before
\* the supertype's initializer is invoked with (skype, raw).
C9_AttrsBeforeSuper ==
    obj.outcome = "ok" =>
        /\ SuperSteps # {}
        /\ \A i \in SuperSteps :
               /\ obj.trace[i] = SuperInit("skype", "raw")
               /\ {obj.trace[j][2] : j \in {m \in SetSteps : m < i}} = AttrSet

\* C9 as amended: in a successful construction the supertype's initializer is
\* invoked with (skype, raw) first, on an instance none of whose schema
\* attributes is set yet, and every schema attribute is set after it.
C9_SuperBeforeAttrs ==
    obj.outcome = "ok" =>
        /\ SuperSteps = {1}
        /\ obj.trace[1] = SuperInit("skype", "raw")
        /\ \A i \in SuperSteps : {m \in SetSteps : m < i} = {}
        /\ {obj.trace[j][2] : j \in {m \in SetSteps : m > 1}} = AttrSet

\* C9's case: a successful construction with a positional argument, a keyword
\* argument and two attributes.
C9_Witness ==
    /\ obj.outcome = "ok"
    /\ schema.attrs = <<"b", "a">>
    /\ obj.args = <<"v1">> /\ DOMAIN obj.kwargs = {"a"}
    /\ Len(obj.trace) = 3

(***************************************************************************)
(* Claims about the convertIds accessors (checked under SpecIds)           *)
(***************************************************************************)
\* The directory and the id field a property reads.
DirectoryOf(prop) == IF prop = "user" THEN session.contacts ELSE session.chats
IdFieldOf(prop) == IF prop = "user" THEN "userId" ELSE "chatId"

\* C8: every read of the user or chat property returns the entry its
\* directory holds, at the time of the read, under the identifier the id field
\* holds at that time, and fails with the lookup miss when the directory holds
\* none, whatever reads and changes came before.
C8_FreshOnEveryRead ==
    [][Len(reads') = Len(reads) + 1 =>
          LET r == reads'[Len(reads')]
              entry == DirectoryOf(r.prop)[entity[IdFieldOf(r.prop)]]
          IN  IF entry = "missing"
              THEN r.outcome = "KeyError"
              ELSE r.outcome = "ok" /\ r.value = entry]_vars

\* C8's case: two reads of the same property, the first resolved, the second
\* with another result after the directory or the id field changed.
C8_Witness ==
    /\ Len(reads) = 2
    /\ reads[1].prop = "user" /\ reads[2].prop = "user"
    /\ reads[1].outcome = "ok" /\ reads[1].value = "E1"
    /\ reads[2].outcome = "ok" /\ reads[2].value = "E2"
    /\ entity.userId = "alice" /\ session.contacts["alice"] = "E2"

====
